---- MODULE Spec2Model ----
(***************************************************************************)
(* Cache-oblivious B-tree map (cpcs/cache-oblivious-btree).                *)
(*                                                                         *)
(* The container BTreeMap (cache_oblivious.rs) owns a PackedMemoryArray    *)
(* (packed_memory_array.rs) whose windows are rewritten through Segment    *)
(* (segment.rs), and a complete binary index tree whose leaves mirror the  *)
(* PMA slots and whose branches hold a reference to the key of the         *)
(* right-most occupied leaf below them.                                    *)
(*                                                                         *)
(* Indices are the source's 0-based indices; a TLA+ sequence s stores the  *)
(* element with index i at s[i + 1].  Tree nodes are named by their        *)
(* breadth-first id (root 1, children 2n and 2n+1).                        *)
(***************************************************************************)
EXTENDS Integers, Sequences, FiniteSets, TLC

\* ---------------------------------------------------------------- bounds
\* Spec: keys 1..MaxKey are inserted and removed in any order; the keys up to
\* MaxKeyV are inserted with any of the values 1..MaxVal, the others with 1.
MaxKey == 7
MaxKeyV == 1
MaxVal == 2
\* SpecLoaded: the keys LoadStep, 2*LoadStep, ..., LoadCount*LoadStep are
\* inserted in ascending order, then the keys HotFrom..HotTo are inserted and
\* removed in any order.
LoadCount == 13
LoadStep == 3
HotFrom == 12
HotTo == 15
\* No insert is called on a container that already holds MaxLen elements.
MaxLen == 16
\* SpecTree: make_tree is called with the heights 1..MaxHeight.
MaxHeight == 6
\* SpecSegment: the segments handed to Segment::new have 1..MaxSegLen slots.
MaxSegLen == 6
\* SpecVeb: veb_index is called with the heights 1..MaxVebHeight.
MaxVebHeight == 6
\* SpecPma: no insert is called on a PMA that already holds MaxPmaCount
\* elements.
MaxPmaCount == 8
\* SpecPma: the keys handed to PackedMemoryArray::insert; two keys tell
\* neighbouring elements apart.
PmaKeys == {1, 2}

Keys == 1..MaxKey
Values == 1..MaxVal
ValuesOf(k) == IF k <= MaxKeyV THEN Values ELSE {1}
HotKeys == HotFrom..HotTo
Universe == 1..(IF MaxKey > LoadCount * LoadStep THEN MaxKey ELSE LoadCount * LoadStep)

\* ------------------------------------------------------------- options
\* Option<(K, V)>::None of a PMA slot; Some((k, v)) is <<k, v>>.
None == <<>>
\* Option<K>::None and Option<V>::None.
NoKey == -1
NoVal == 0
\* Option<(usize, usize)>::None, the "resized" report.
NoRange == <<>>
\* Null value of a branch's key reference.
NoRef == -1

Pow2(n) == 2 ^ n

Min(S) == CHOOSE x \in S : \A y \in S : x <= y
Max(S) == CHOOSE x \in S : \A y \in S : x >= y

\* data[from..to] of a vector and its write-back.
Slice(v, from, to) == SubSeq(v, from + 1, to)
Splice(v, from, d) ==
  [x \in 1..Len(v) |-> IF x > from /\ x <= from + Len(d) THEN d[x - from] ELSE v[x]]

\* ------------------------------------------------------------- Segment
get_count(d) == Cardinality({i \in 1..Len(d) : d[i] # None})

\* A move that leaves the source slot as it was.
move_key_value_keep_src(d, src, dst) ==
  [d EXCEPT ![dst + 1] = d[src + 1]]

move_key_value(d, src, dst) ==
  IF src = dst THEN d
  ELSE [d EXCEPT ![dst + 1] = d[src + 1], ![src + 1] = None]

RECURSIVE FrontLoop(_, _, _, _)
FrontLoop(d, i, num, count) ==
  IF i >= Len(d) THEN d
  ELSE IF d[i + 1] = None THEN FrontLoop(d, i + 1, num, count)
  ELSE LET d2 == move_key_value(d, i, num)
       IN IF num + 1 = count THEN d2 ELSE FrontLoop(d2, i + 1, num + 1, count)

move_all_key_values_to_front(d, count) ==
  IF count = 0 THEN d ELSE FrontLoop(d, 0, 0, count)

\* The loop of shuffle_key_values: occupant i goes to j, then j steps down.
RECURSIVE ShuffleLoop(_, _, _, _, _)
\* A loop that always steps down by sub_len only.
ShuffleLoop_no_remainder(d, i, j, sub_len, remainer) ==
  IF i < 0 THEN d
  ELSE ShuffleLoop(move_key_value(d, i, j), i - 1, j - sub_len, sub_len, remainer)

ShuffleLoop(d, i, j, sub_len, remainer) ==
  IF i < 0 THEN d
  ELSE LET j1 == j - sub_len
           j2 == IF i < remainer /\ j1 > 0 THEN j1 - 1 ELSE j1
       IN ShuffleLoop(move_key_value(d, i, j), i - 1, j2, sub_len, remainer)

\* The values j takes in the loop of shuffle_key_values, one per turn
\* i, i - 1, ..., 0, as integers (j is a usize in the code).
RECURSIVE ShuffleTargets(_, _, _, _)
ShuffleTargets(i, j, sub_len, remainer) ==
  IF i < 0 THEN <<>>
  ELSE LET Rest(j2) == <<j2>> \o ShuffleTargets(i - 1, j2, sub_len, remainer)
           Extra(j1) == Rest(IF i < remainer /\ j1 > 0 THEN j1 - 1 ELSE j1)
       IN Extra(j - sub_len)

\* A redistribution that stops after the compaction.
shuffle_key_values_front_only(d, count, need_compact) ==
  IF count = 0 THEN d ELSE move_all_key_values_to_front(d, count)

shuffle_key_values(d, count, need_compact) ==
  IF count = 0 THEN d
  ELSE LET c == IF need_compact THEN move_all_key_values_to_front(d, count) ELSE d
       IN ShuffleLoop(c, count - 1, Len(d) - 1, Len(d) \div count, Len(d) % count)

HasSpace_always(d) == TRUE

\* insert_key_value panics ("No space to insert") exactly when this is false.
HasSpace(d) == \E i \in 1..Len(d) : d[i] = None

\* An insert that looks for room on the left first.
insert_key_value_left_first(d, position, key_value) ==
  LET right == {i \in position..(Len(d) - 1) : d[i + 1] = None}
      left == {i \in 0..(position - 1) : d[i + 1] = None}
  IN IF left # {}
     THEN LET i == Max(left)
          IN [x \in 1..Len(d) |->
                IF x - 1 = position - 1 THEN key_value
                ELSE IF x - 1 >= i /\ x - 1 < position - 1 THEN d[x + 1]
                ELSE d[x]]
     ELSE IF right # {}
     THEN LET i == Min(right)
          IN [x \in 1..Len(d) |->
                IF x - 1 = position THEN key_value
                ELSE IF x - 1 > position /\ x - 1 <= i THEN d[x - 1]
                ELSE d[x]]
     ELSE d

insert_key_value(d, position, key_value) ==
  LET right == {i \in position..(Len(d) - 1) : d[i + 1] = None}
      left == {i \in 0..(position - 1) : d[i + 1] = None}
  IN IF right # {}
     THEN LET i == Min(right)
          IN [x \in 1..Len(d) |->
                IF x - 1 = position THEN key_value
                ELSE IF x - 1 > position /\ x - 1 <= i THEN d[x - 1]
                ELSE d[x]]
     ELSE IF left # {}
     THEN LET i == Max(left)
          IN [x \in 1..Len(d) |->
                IF x - 1 = position - 1 THEN key_value
                ELSE IF x - 1 >= i /\ x - 1 < position - 1 THEN d[x + 1]
                ELSE d[x]]
     ELSE d

remove_key_value(d, index) == [d EXCEPT ![index + 1] = None]

\* --------------------------------------------------- PackedMemoryArray
pma_new ==
  [v |-> <<None>>, height |-> 1, segment_size_log2 |-> 0, segment_size |-> 1]

\* The ceiling without its slack: any window that is not over-full passes.
insert_density_ok_full(height, depth, count, size) ==
  count <= size

insert_density_ok(height, depth, count, size) ==
  count * (height * 4) <= size * (height * 3 + depth)

remove_density_ok_always(height, depth, count, size) == TRUE

\* A floor of three quarters at every depth.
remove_density_ok_three_quarters(height, depth, count, size) ==
  count * 4 >= size * 3

remove_density_ok(height, depth, count, size) ==
  count * (height * 4) >= size * (height * 2 - depth)

\* The leaf segment of insert and its first density test (lines 45-62).
InsertLeaf_uncounted(p, index) ==
  LET atEnd == Len(p.v) = index
      segment_id == (index \div Pow2(p.segment_size_log2)) - (IF atEnd THEN 1 ELSE 0)
      from == segment_id * Pow2(p.segment_size_log2)
      to == from + p.segment_size
      size == p.segment_size
      count == get_count(Slice(p.v, from, to))
      found == count < size
  IN [from |-> from, to |-> to, size |-> size,
      count |-> IF found THEN count + 1 ELSE count,
      segment_pos |-> IF atEnd THEN p.segment_size ELSE index % p.segment_size,
      found_segment |-> found,
      density_ok |-> found /\ insert_density_ok(p.height, p.height - 1, count, size),
      depth |-> p.height - 1]

InsertLeaf(p, index) ==
  LET atEnd == Len(p.v) = index
      segment_id == (index \div Pow2(p.segment_size_log2)) - (IF atEnd THEN 1 ELSE 0)
      from == segment_id * Pow2(p.segment_size_log2)
      to == from + p.segment_size
      size == p.segment_size
      count == get_count(Slice(p.v, from, to))
      found == count < size
  IN [from |-> from, to |-> to, size |-> size,
      count |-> IF found THEN count + 1 ELSE count,
      segment_pos |-> IF atEnd THEN p.segment_size ELSE index % p.segment_size,
      found_segment |-> found,
      density_ok |-> found /\ insert_density_ok(p.height, p.height - 1, count + 1, size),
      depth |-> p.height - 1]

\* The climb "for depth in (0..height - 1).rev()" of insert (lines 66-88).
RECURSIVE InsertWalk(_, _, _)
\* A climb that settles in the first window with room, whatever its density.
InsertWalk_any_room(p, w, depth) ==
  IF depth < 0 THEN w
  ELSE LET isRight == ((w.from \div w.size) % 2) = 1
           sib == IF isRight THEN get_count(Slice(p.v, w.from - w.size, w.from))
                  ELSE get_count(Slice(p.v, w.to, w.to + w.size))
           from1 == IF isRight THEN w.from - w.size ELSE w.from
           to1 == IF isRight THEN w.to ELSE w.to + w.size
           pos1 == IF isRight THEN w.segment_pos + w.size ELSE w.segment_pos
           size1 == w.size * 2
           count1 == w.count + sib
           take == ~w.found_segment /\ count1 < size1
           count2 == IF take THEN count1 + 1 ELSE count1
           found1 == w.found_segment \/ take
           ok == found1
           w1 == [from |-> from1, to |-> to1, size |-> size1, count |-> count2,
                  segment_pos |-> pos1, found_segment |-> found1,
                  density_ok |-> ok, depth |-> depth]
       IN IF ok THEN w1 ELSE InsertWalk(p, w1, depth - 1)

InsertWalk(p, w, depth) ==
  IF depth < 0 THEN w
  ELSE LET isRight == ((w.from \div w.size) % 2) = 1
           sib == IF isRight THEN get_count(Slice(p.v, w.from - w.size, w.from))
                  ELSE get_count(Slice(p.v, w.to, w.to + w.size))
           from1 == IF isRight THEN w.from - w.size ELSE w.from
           to1 == IF isRight THEN w.to ELSE w.to + w.size
           pos1 == IF isRight THEN w.segment_pos + w.size ELSE w.segment_pos
           size1 == w.size * 2
           count1 == w.count + sib
           take == ~w.found_segment /\ count1 < size1
           count2 == IF take THEN count1 + 1 ELSE count1
           found1 == w.found_segment \/ take
           ok == found1 /\ insert_density_ok(p.height, depth, count2, size1)
           w1 == [from |-> from1, to |-> to1, size |-> size1, count |-> count2,
                  segment_pos |-> pos1, found_segment |-> found1,
                  density_ok |-> ok, depth |-> depth]
       IN IF ok THEN w1 ELSE InsertWalk(p, w1, depth - 1)

\* A search that climbs even when the leaf segment passes.
InsertWindow_always_climb(p, index) == InsertWalk(p, InsertLeaf(p, index), p.height - 2)

InsertWindow(p, index) ==
  LET Climb(w) ==
        IF ~w.found_segment \/ ~w.density_ok THEN InsertWalk(p, w, p.height - 2) ELSE w
  IN Climb(InsertLeaf(p, index))

\* A resize up that always raises the height, never the segment size.
GrowShape_height_only(p, d) ==
  [p EXCEPT !.v = d, !.height = p.height + 1]

\* The shape after the array has doubled (lines 103-107).
GrowShape(p, d) ==
  IF p.height - 1 = p.segment_size_log2
  THEN [p EXCEPT !.v = d, !.height = p.height + 1]
  ELSE [p EXCEPT !.v = d,
                 !.segment_size_log2 = p.segment_size_log2 + 1,
                 !.segment_size = p.segment_size * 2]

\* A resize down that always lowers the height, never the segment size.
ShrinkShape_height_only(p, d) ==
  [p EXCEPT !.v = d, !.height = p.height - 1]

\* The shape after the array has halved (lines 156-160).
ShrinkShape(p, d) ==
  IF p.height - 1 = p.segment_size_log2
  THEN [p EXCEPT !.v = d,
                 !.segment_size_log2 = p.segment_size_log2 - 1,
                 !.segment_size = p.segment_size \div 2]
  ELSE [p EXCEPT !.v = d, !.height = p.height - 1]

\* An insert that redistributes the whole array and reports its window.
pma_insert_spread_all(p, index, key_value) ==
  LET InsertIn(w) ==
        IF ~w.found_segment
        THEN [pma |-> p, range |-> NoRange, panic |-> "found_segment"]
        ELSE IF w.density_ok
        THEN [pma |-> [p EXCEPT !.v =
                         shuffle_key_values(
                           Splice(p.v, w.from,
                                  insert_key_value(Slice(p.v, w.from, w.to), w.segment_pos,
                                                   key_value)),
                           get_count(p.v) + 1, TRUE)],
              range |-> <<w.from, w.to>>, panic |-> "none"]
        ELSE [pma |-> GrowShape(p,
                        shuffle_key_values(
                          insert_key_value(p.v \o [x \in 1..(w.size * 2 - Len(p.v)) |-> None],
                                           w.segment_pos, key_value),
                          w.count, TRUE)),
              range |-> NoRange, panic |-> "none"]
  IN InsertIn(InsertWindow(p, index))

\* An insert that reports the last slot of its window as the end of the range.
pma_insert_inclusive_to(p, index, key_value) ==
  LET InsertIn(w) ==
        IF ~w.found_segment
        THEN [pma |-> p, range |-> NoRange, panic |-> "found_segment"]
        ELSE IF w.density_ok
        THEN [pma |-> [p EXCEPT !.v = Splice(p.v, w.from,
                         shuffle_key_values(
                           insert_key_value(Slice(p.v, w.from, w.to), w.segment_pos, key_value),
                           w.count, TRUE))],
              range |-> <<w.from, w.to - 1>>, panic |-> "none"]
        ELSE [pma |-> GrowShape(p,
                        shuffle_key_values(
                          insert_key_value(p.v \o [x \in 1..(w.size * 2 - Len(p.v)) |-> None],
                                           w.segment_pos, key_value),
                          w.count, TRUE)),
              range |-> NoRange, panic |-> "none"]
  IN InsertIn(InsertWindow(p, index))

\* PackedMemoryArray::insert.  panic is "found_segment" when the assertion
\* of line 89 fails; the array is then left as it was.
pma_insert(p, index, key_value) ==
  LET InsertIn(w) ==
        IF ~w.found_segment
        THEN [pma |-> p, range |-> NoRange, panic |-> "found_segment"]
        ELSE IF w.density_ok
        THEN [pma |-> [p EXCEPT !.v = Splice(p.v, w.from,
                         shuffle_key_values(
                           insert_key_value(Slice(p.v, w.from, w.to), w.segment_pos, key_value),
                           w.count, TRUE))],
              range |-> <<w.from, w.to>>, panic |-> "none"]
        ELSE [pma |-> GrowShape(p,
                        shuffle_key_values(
                          insert_key_value(p.v \o [x \in 1..(w.size * 2 - Len(p.v)) |-> None],
                                           w.segment_pos, key_value),
                          w.count, TRUE)),
              range |-> NoRange, panic |-> "none"]
  IN InsertIn(InsertWindow(p, index))

\* The climb of remove (lines 128-143); density_ok tells whether a window passed.
RECURSIVE RemoveWalk(_, _, _, _)
\* A climb that stops below the root window.
RemoveWalk_below_root(p, v1, w, depth) ==
  IF depth < 1 THEN w
  ELSE LET isRight == ((w.from \div w.size) % 2) = 1
           sib == IF isRight THEN get_count(Slice(v1, w.from - w.size, w.from))
                  ELSE get_count(Slice(v1, w.to, w.to + w.size))
           w1 == [from |-> IF isRight THEN w.from - w.size ELSE w.from,
                  to |-> IF isRight THEN w.to ELSE w.to + w.size,
                  size |-> w.size * 2, count |-> w.count + sib,
                  density_ok |-> remove_density_ok(p.height, depth, w.count + sib, w.size * 2),
                  depth |-> depth]
       IN IF w1.density_ok THEN w1 ELSE RemoveWalk(p, v1, w1, depth - 1)

RemoveWalk(p, v1, w, depth) ==
  IF depth < 0 THEN w
  ELSE LET isRight == ((w.from \div w.size) % 2) = 1
           sib == IF isRight THEN get_count(Slice(v1, w.from - w.size, w.from))
                  ELSE get_count(Slice(v1, w.to, w.to + w.size))
           w1 == [from |-> IF isRight THEN w.from - w.size ELSE w.from,
                  to |-> IF isRight THEN w.to ELSE w.to + w.size,
                  size |-> w.size * 2, count |-> w.count + sib,
                  density_ok |-> remove_density_ok(p.height, depth, w.count + sib, w.size * 2),
                  depth |-> depth]
       IN IF w1.density_ok THEN w1 ELSE RemoveWalk(p, v1, w1, depth - 1)

RemoveWindow(p, index) ==
  LET segment_id == index \div Pow2(p.segment_size_log2)
      from == p.segment_size * segment_id
      to == from + p.segment_size
      Leaf(v1, count) ==
        [from |-> from, to |-> to, size |-> p.segment_size, count |-> count,
         density_ok |-> remove_density_ok(p.height, p.height - 1, count, p.segment_size),
         depth |-> p.height - 1]
      Climb(v1, w) == IF w.density_ok THEN w ELSE RemoveWalk(p, v1, w, p.height - 2)
      Removed(v1) == Climb(v1, Leaf(v1, get_count(Slice(v1, from, to))))
  IN Removed(remove_key_value(p.v, index))

\* PackedMemoryArray::remove.
pma_remove(p, index) ==
  LET RemoveIn(v1, w) ==
        IF w.density_ok
        THEN [pma |-> [p EXCEPT !.v = Splice(v1, w.from,
                         shuffle_key_values(Slice(v1, w.from, w.to), w.count, TRUE))],
              range |-> <<w.from, w.to>>]
        ELSE IF w.count = 0
        THEN [pma |-> pma_new, range |-> NoRange]
        ELSE [pma |-> ShrinkShape(p,
                        shuffle_key_values(
                          SubSeq(move_all_key_values_to_front(v1, w.count), 1, w.size \div 2),
                          w.count, FALSE)),
              range |-> NoRange]
  IN RemoveIn(remove_key_value(p.v, index), RemoveWindow(p, index))


\* The PMA as the container calls it: the call also hands back the value that
\* was stored before.  An insert whose index holds an equal key replaces the
\* value in place and reports the leaf segment of the index.
LeafWindow(p, index) ==
  LET from == (index \div p.segment_size) * p.segment_size
  IN <<from, from + p.segment_size>>

insert_or_replace(p, index, key_value) ==
  IF index < Len(p.v) /\ p.v[index + 1] # None /\ p.v[index + 1][1] = key_value[1]
  THEN [pma |-> [p EXCEPT !.v[index + 1] = key_value],
        old_value |-> p.v[index + 1][2],
        range |-> LeafWindow(p, index), panic |-> "none"]
  ELSE LET Inserted(r) ==
             [pma |-> r.pma, old_value |-> NoVal, range |-> r.range, panic |-> r.panic]
       IN Inserted(pma_insert(p, index, key_value))

remove_slot(p, index) ==
  IF p.v[index + 1] = None
  THEN [pma |-> p, old_value |-> NoVal, range |-> LeafWindow(p, index)]
  ELSE LET Removed(r) ==
             [pma |-> r.pma, old_value |-> p.v[index + 1][2], range |-> r.range]
       IN Removed(pma_remove(p, index))

get_key_values(p) == p.v
data_len(p) == Len(p.v)

\* ---------------------------------------------------------- index tree
\* A leaf is its Option<K>: some tells the variant, key is the memory cell
\* of the payload.  A branch key is Option<&K>, a reference to the payload
\* cell of a leaf (the leaf's index) or NoRef.
EmptyLeaf == [some |-> FALSE, key |-> 0]

\* What a cleared leaf's payload cell holds afterwards is not defined by the
\* source: the store of None may leave the old key in place (Keep) or
\* overwrite it with other bits (here 0, a value below every key).
Keep == -1
PayloadOutcomes == {Keep, 0}

NumLeaves(bt) == Pow2(bt.height - 1)
IsLeaf(bt, n) == n >= NumLeaves(bt)

\* The reference Node::get_key returns (NoRef for None).
key_ref(bt, n) ==
  IF IsLeaf(bt, n)
  THEN (IF bt.leaves[n - NumLeaves(bt) + 1].some THEN n - NumLeaves(bt) ELSE NoRef)
  ELSE bt.nodes[n]

\* Reading through a key reference.
Deref(bt, r) == bt.leaves[r + 1].key

get_key(bt, n) == IF key_ref(bt, n) = NoRef THEN NoKey ELSE Deref(bt, key_ref(bt, n))

\* A set_leave_key that stores a new key but never clears the leaf.
set_leave_key_no_clear(leaf, key, g) ==
  IF key # NoKey THEN [some |-> TRUE, key |-> key] ELSE leaf

set_leave_key(leaf, key, g) ==
  IF key # NoKey THEN [some |-> TRUE, key |-> key]
  ELSE IF ~leaf.some THEN leaf
  ELSE [some |-> FALSE, key |-> IF g = Keep THEN leaf.key ELSE g]

set_branch_key(bt, n) ==
  LET k == bt.nodes[n]
      Set(input_key) ==
        [bt |-> [bt EXCEPT !.nodes[n] = input_key],
         changed |-> IF k # NoRef
                     THEN (IF input_key # NoRef THEN Deref(bt, k) # Deref(bt, input_key)
                           ELSE TRUE)
                     ELSE input_key # NoRef]
      Input(right) == IF right = NoRef THEN key_ref(bt, 2 * n) ELSE right
  IN Set(Input(key_ref(bt, 2 * n + 1)))

\* make_tree: a complete binary tree of the given height, every key None.
make_tree(height) ==
  [leaves |-> [i \in 1..Pow2(height - 1) |-> EmptyLeaf],
   nodes |-> [n \in 1..(Pow2(height - 1) - 1) |-> NoRef]]

\* make_tree with the node array it fills: a node is stored at the position it
\* was pushed at (0-based); parent, left and right are positions, NoRef for a
\* null pointer.  st is [nodes, leaves], the two vectors handed to make_tree;
\* the result adds root, the position returned.
LeafNode == [leaf |-> TRUE, key |-> NoKey, parent |-> NoRef, left |-> NoRef, right |-> NoRef]

next_power_of_two_same(n) == n

next_power_of_two(n) ==
  CHOOSE q \in {Pow2(e) : e \in 0..n} :
    q >= n /\ \A r \in {Pow2(e) : e \in 0..n} : r >= n => q <= r

connect_nodes_left_twice(ns, parent, left, right) ==
  [ns EXCEPT ![parent + 1] = [leaf |-> FALSE, key |-> NoRef, parent |-> @.parent,
                              left |-> left, right |-> left],
             ![left + 1].parent = parent,
             ![right + 1].parent = parent]

connect_nodes(ns, parent, left, right) ==
  [ns EXCEPT ![parent + 1] = [leaf |-> FALSE, key |-> NoRef, parent |-> @.parent,
                              left |-> left, right |-> right],
             ![left + 1].parent = parent,
             ![right + 1].parent = parent]

RECURSIVE make_tree_nodes(_, _)
RECURSIVE BottomTrees(_, _, _, _)

BottomTrees_right_first(bottom_height, top_leaves, st, i) ==
  IF i >= Len(top_leaves) THEN st
  ELSE LET Connect(right, left) ==
             BottomTrees(bottom_height, top_leaves,
                         [nodes |-> connect_nodes(left.nodes, top_leaves[i + 1],
                                                  left.root, right.root),
                          leaves |-> left.leaves],
                         i + 1)
           Left(right) ==
             Connect(right, make_tree_nodes(bottom_height,
                                            [nodes |-> right.nodes, leaves |-> right.leaves]))
       IN Left(make_tree_nodes(bottom_height, st))

\* The loop over the leaves of the top tree (lines 156-161): two bottom trees
\* are made and connected below top leaf i.
BottomTrees(bottom_height, top_leaves, st, i) ==
  \* Len(st.nodes) >= 0 holds of every vector: reading it makes TLC evaluate
  \* the vectors of one turn of the loop before the next turn starts.
  IF Len(st.nodes) >= 0 /\ i >= Len(top_leaves) THEN st
  ELSE LET Connect(left, right) ==
             BottomTrees(bottom_height, top_leaves,
                         [nodes |-> connect_nodes(right.nodes, top_leaves[i + 1],
                                                  left.root, right.root),
                          leaves |-> right.leaves],
                         i + 1)
           Right(left) ==
             Connect(left, make_tree_nodes(bottom_height,
                                           [nodes |-> left.nodes, leaves |-> left.leaves]))
       IN Right(make_tree_nodes(bottom_height, st))

make_tree_nodes(height, st) ==
  IF height = 1
  THEN [nodes |-> Append(st.nodes, LeafNode),
        leaves |-> Append(st.leaves, Len(st.nodes)),
        root |-> Len(st.nodes)]
  ELSE LET bottom_height == next_power_of_two((height + 1) \div 2)
           top_height == height - bottom_height
           Rooted(root, st1) == [nodes |-> st1.nodes, leaves |-> st1.leaves, root |-> root]
           Bottom(top) ==
             Rooted(top.root,
                    BottomTrees(bottom_height, top.leaves,
                                [nodes |-> top.nodes, leaves |-> st.leaves], 0))
       IN Bottom(make_tree_nodes(top_height, [nodes |-> st.nodes, leaves |-> <<>>]))

\* make_tree called with two empty vectors, as rebuild and the tests call it.
make_tree_from_empty(height) == make_tree_nodes(height, [nodes |-> <<>>, leaves |-> <<>>])

RECURSIVE Log2(_)
Log2(n) == IF n <= 1 THEN 0 ELSE 1 + Log2(n \div 2)

\* The first loop of populate_changes: the parents of the leaves of
\* [from, to), a parent pushed unless it is the last one pushed.
LeafParents(bt, from, to) ==
  IF bt.height = 1 THEN <<>>
  ELSE LET lo == (NumLeaves(bt) + from) \div 2
           hi == (NumLeaves(bt) + to - 1) \div 2
       IN [x \in 1..(hi - lo + 1) |-> lo + x - 1]

\* The second loop of populate_changes.
RECURSIVE Propagate(_, _, _)
Propagate(bt, changed_nodes, i) ==
  IF i > Len(changed_nodes) THEN bt
  ELSE LET n == changed_nodes[i]
           Step(r) ==
             Propagate(r.bt,
                       IF r.changed /\ n > 1 /\ changed_nodes[Len(changed_nodes)] # n \div 2
                       THEN Append(changed_nodes, n \div 2) ELSE changed_nodes,
                       i + 1)
       IN Step(set_branch_key(bt, n))

\* The first loop of populate_changes turn by turn: changed_nodes after the
\* leaves i, i + 1, ..., to - 1 have been visited.
RECURSIVE PushParents(_, _, _, _)
PushParents(bt, i, to, changed_nodes) ==
  IF i >= to THEN changed_nodes
  ELSE LET parent == (NumLeaves(bt) + i) \div 2
       IN PushParents(bt, i + 1, to,
            IF bt.height > 1
               /\ (changed_nodes = <<>> \/ changed_nodes[Len(changed_nodes)] # parent)
            THEN Append(changed_nodes, parent) ELSE changed_nodes)

RECURSIVE ChangedNodes(_, _, _)
\* A second loop that pushes the parent of every changed node.
ChangedNodes_push_always(bt, changed_nodes, i) ==
  IF i > Len(changed_nodes) THEN changed_nodes
  ELSE LET n == changed_nodes[i]
           Step(r) ==
             ChangedNodes(r.bt,
                          IF r.changed /\ n > 1
                          THEN Append(changed_nodes, n \div 2) ELSE changed_nodes,
                          i + 1)
       IN Step(set_branch_key(bt, n))

\* changed_nodes when the second loop of populate_changes ends.
ChangedNodes(bt, changed_nodes, i) ==
  IF i > Len(changed_nodes) THEN changed_nodes
  ELSE LET n == changed_nodes[i]
           Step(r) ==
             ChangedNodes(r.bt,
                          IF r.changed /\ n > 1 /\ changed_nodes[Len(changed_nodes)] # n \div 2
                          THEN Append(changed_nodes, n \div 2) ELSE changed_nodes,
                          i + 1)
       IN Step(set_branch_key(bt, n))

\* The payload cell of a cleared leaf that no branch refers to is never read
\* again (a reference is only ever taken to an occupied leaf or copied from a
\* branch); it is recorded as 0.
Forget(bt) ==
  [bt EXCEPT !.leaves =
     [i \in 1..Len(bt.leaves) |->
        IF ~bt.leaves[i].some /\ (\A n \in DOMAIN bt.nodes : bt.nodes[n] # i - 1)
        THEN EmptyLeaf ELSE bt.leaves[i]]]

populate_changes(bt, from, to, g) ==
  LET key_values == get_key_values(bt.pma)
      Up(bt1) == Forget(Propagate(bt1, LeafParents(bt1, from, to), 1))
  IN Up([bt EXCEPT !.leaves =
           [i \in 1..Len(bt.leaves) |->
              IF i - 1 >= from /\ i - 1 < to
              THEN set_leave_key(bt.leaves[i],
                     IF key_values[i] = None THEN NoKey ELSE key_values[i][1], g)
              ELSE bt.leaves[i]]])

rebuild_keep_tree(bt, g) == populate_changes(bt, 0, Len(bt.leaves), g)

rebuild(bt, g) ==
  LET Fill(tree_height, tree) ==
        populate_changes([bt EXCEPT !.height = tree_height, !.leaves = tree.leaves,
                                    !.nodes = tree.nodes],
                         0, data_len(bt.pma), g)
      Make(tree_height) == Fill(tree_height, make_tree(tree_height))
  IN Make(Log2(data_len(bt.pma)) + 1)

\* The descent of find_index from node cur with the leaf rank built so far.
RECURSIVE Descend(_, _, _, _)
Descend_own_key(bt, key, cur, index) ==
  IF IsLeaf(bt, cur) THEN index
  ELSE LET k == get_key(bt, cur)
       IN IF k # NoKey /\ k >= key
          THEN Descend(bt, key, 2 * cur, 2 * index)
          ELSE Descend(bt, key, 2 * cur + 1, 2 * index + 1)

Descend(bt, key, cur, index) ==
  IF IsLeaf(bt, cur) THEN index
  ELSE LET k == get_key(bt, 2 * cur)
       IN IF k # NoKey /\ k >= key
          THEN Descend(bt, key, 2 * cur, 2 * index)
          ELSE Descend(bt, key, 2 * cur + 1, 2 * index + 1)

find_index(bt, key) ==
  LET Last(index, k) == IF k # NoKey /\ k < key THEN index + 1 ELSE index
      At(index) == Last(index, get_key(bt, NumLeaves(bt) + index))
  IN At(Descend(bt, key, 1, 0))

\* ----------------------------------------------------------- veb_index
RECURSIVE veb_index(_, _)
\* A veb_index that counts 2^bottom_height addresses for a bottom tree.
veb_index_wide_subtree(n, height) ==
  IF height <= 1 THEN n
  ELSE LET bottom_height == next_power_of_two(height \div 2)
           top_height == height - bottom_height
           top_num == n \div Pow2(bottom_height)
           bottom_num == n % Pow2(bottom_height)
           top_size == Pow2(top_height) - 1
           subtree_size == Pow2(bottom_height)
           top_address == top_num * subtree_size + top_size
       IN IF bottom_num = 0 THEN veb_index(top_num, top_height)
          ELSE top_address + veb_index(bottom_num, bottom_height)

\* veb_index(n, height): the address of the node with sorted index n.
veb_index(n, height) ==
  IF height <= 1 THEN n
  ELSE LET bottom_height == next_power_of_two(height \div 2)
           top_height == height - bottom_height
           top_num == n \div Pow2(bottom_height)
           bottom_num == n % Pow2(bottom_height)
           top_size == Pow2(top_height) - 1
           subtree_size == Pow2(bottom_height) - 1
           top_address == top_num * subtree_size + top_size
       IN IF bottom_num = 0 THEN veb_index(top_num, top_height)
          ELSE top_address + veb_index(bottom_num, bottom_height)

\* ------------------------------------------------------------ BTreeMap
new ==
  [height |-> 1, nodes |-> make_tree(1).nodes, leaves |-> make_tree(1).leaves,
   pma |-> pma_new, size |-> 0]

\* A size counter that counts a replaced value as a new entry.
SizeAfterInsert_always(bt, old_value) == bt.size + 1

\* The size counter after an insert (lines 212-214).
SizeAfterInsert(bt, old_value) ==
  IF old_value = NoVal THEN bt.size + 1 ELSE bt.size

\* changed_range is the local of that name, kept for the observer.
insert(bt, key, value, g) ==
  LET Refresh(bt1, changed_range) ==
        IF changed_range # NoRange
        THEN populate_changes(bt1, changed_range[1], changed_range[2], g)
        ELSE rebuild(bt1, g)
      Done(r) ==
        IF r.panic # "none"
        THEN [bt |-> bt, old_value |-> NoVal, changed_range |-> NoRange, panic |-> r.panic]
        ELSE [bt |-> Refresh([bt EXCEPT !.pma = r.pma,
                                        !.size = SizeAfterInsert(bt, r.old_value)],
                             r.range),
              old_value |-> r.old_value, changed_range |-> r.range, panic |-> "none"]
  IN Done(insert_or_replace(bt.pma, find_index(bt, key), <<key, value>>))

\* A key test that accepts any occupied leaf.
LeafHoldsKey_any(bt, index, key) ==
  get_key(bt, NumLeaves(bt) + index) # NoKey

\* The test of remove that the routed leaf holds the key (lines 228-235).
LeafHoldsKey(bt, index, key) ==
  get_key(bt, NumLeaves(bt) + index) = key

remove(bt, key, g) ==
  LET Refresh(bt1, changed_range) ==
        IF changed_range # NoRange
        THEN populate_changes(bt1, changed_range[1], changed_range[2], g)
        ELSE rebuild(bt1, g)
      Done(r) ==
        IF r.old_value = NoVal
        THEN [bt |-> [bt EXCEPT !.pma = r.pma], old_value |-> NoVal, changed_range |-> NoRange]
        ELSE [bt |-> Refresh([bt EXCEPT !.pma = r.pma, !.size = bt.size - 1], r.range),
              old_value |-> r.old_value, changed_range |-> r.range]
      At(index) ==
        IF index >= Len(bt.leaves)
        THEN [bt |-> bt, old_value |-> NoVal, changed_range |-> NoRange]
        ELSE IF ~LeafHoldsKey(bt, index, key)
        THEN [bt |-> bt, old_value |-> NoVal, changed_range |-> NoRange]
        ELSE Done(remove_slot(bt.pma, index))
  IN At(find_index(bt, key))

get(bt, key) ==
  LET Match(kv) == IF kv = None THEN NoVal
                   ELSE IF key = kv[1] THEN kv[2] ELSE NoVal
      At(index) == IF index >= Len(bt.leaves) THEN NoVal
                   ELSE Match(get_key_values(bt.pma)[index + 1])
  IN At(find_index(bt, key))

get_all_key_values(bt) == SelectSeq(get_key_values(bt.pma), LAMBDA kv : kv # None)

\* get_top_k_key_values without its take(k).
get_top_k_key_values_all(bt, k) ==
  SelectSeq(get_key_values(bt.pma), LAMBDA kv : kv # None)

get_top_k_key_values(bt, k) ==
  LET all == SelectSeq(get_key_values(bt.pma), LAMBDA kv : kv # None)
  IN SubSeq(all, 1, IF k < Len(all) THEN k ELSE Len(all))

len(bt) == bt.size


\* --------------------------------------------------------------- state
VARIABLES
  height, nodes, leaves, pma, size,   \* the fields of BTreeMap
  s,               \* the reference sorted map of sanity_test (0: key absent)
  op,              \* the last call: <<"insert", k, v>>, <<"remove", k, 0>> or <<"new", 0, 0>>
  ret,             \* what the last call returned
  sret,            \* what the reference returned for it
  changed_range,   \* what the PMA reported to the last call
  loaded,          \* how many keys the ascending load has inserted
  panic,           \* "none", or the assertion that aborted the program
  tree_height,     \* test_create_tree: the height handed to make_tree
  tree,            \* test_create_tree: [nodes, leaves, root] as make_tree left them
  positions,       \* traverse: per depth, the array positions met so far
  todo,            \* traverse: the pending calls <<depth, cur, parent>>, next one first
  segment,         \* segment test: the slots handed to Segment::new
  data,            \* segment test: the slots after the call
  veb_height,      \* test_works: the height handed to veb_index
  veb_i,           \* test_works: the loop variable i
  addresses        \* test_works: the addresses printed so far

walk_vars == <<tree_height, tree, positions, todo>>

seg_vars == <<segment, data>>

veb_vars == <<veb_height, veb_i, addresses>>

vars == <<height, nodes, leaves, pma, size, s, op, ret, sret, changed_range, loaded, panic,
          tree_height, tree, positions, todo, segment, data, veb_height, veb_i, addresses>>

Self == [height |-> height, nodes |-> nodes, leaves |-> leaves, pma |-> pma, size |-> size]

Fresh ==
  /\ height = new.height
  /\ nodes = new.nodes
  /\ leaves = new.leaves
  /\ pma = new.pma
  /\ size = new.size
  /\ s = [k \in Universe |-> NoVal]
  /\ op = <<"new", 0, 0>>
  /\ ret = NoVal
  /\ sret = NoVal
  /\ changed_range = NoRange
  /\ loaded = 0
  /\ panic = "none"

\* No tree test is running.
NoWalk ==
  /\ tree_height = 1
  /\ tree = make_tree_from_empty(1)
  /\ positions = <<>>
  /\ todo = <<>>

\* No segment test is running.
NoSegment == segment = <<>> /\ data = <<>>

NoVeb == veb_height = 1 /\ veb_i = 1 /\ addresses = <<>>

Init == Fresh /\ NoWalk /\ NoSegment /\ NoVeb

Become(bt) ==
  /\ height' = bt.height
  /\ nodes' = bt.nodes
  /\ leaves' = bt.leaves
  /\ pma' = bt.pma
  /\ size' = bt.size

\* tree.insert(k, v) followed by s.insert(k), as in sanity_test.
CallInsert(k, v, g) ==
  LET Returned(r) ==
        /\ Become(r.bt)
        /\ panic' = r.panic
        /\ ret' = r.old_value
        /\ s' = IF r.panic = "none" THEN [s EXCEPT ![k] = v] ELSE s
        /\ changed_range' = r.changed_range
  IN /\ panic = "none"
     /\ size < MaxLen
     /\ Returned(insert(Self, k, v, g))
     /\ op' = <<"insert", k, v>>
     /\ sret' = s[k]

\* tree.remove(&k) followed by s.remove(&k).
CallRemove(k, g) ==
  LET Returned(r) ==
        /\ Become(r.bt)
        /\ ret' = r.old_value
        /\ changed_range' = r.changed_range
  IN /\ panic = "none"
     /\ Returned(remove(Self, k, g))
     /\ panic' = panic
     /\ op' = <<"remove", k, 0>>
     /\ sret' = s[k]
     /\ s' = [s EXCEPT ![k] = NoVal]

Insert == \E k \in Keys : \E v \in ValuesOf(k) : \E g \in PayloadOutcomes :
            CallInsert(k, v, g) /\ UNCHANGED <<loaded, walk_vars, seg_vars, veb_vars>>

Remove == \E k \in Keys : \E g \in PayloadOutcomes :
            CallRemove(k, g) /\ UNCHANGED <<loaded, walk_vars, seg_vars, veb_vars>>

Next == Insert \/ Remove

Spec == Init /\ [][Next]_vars

\* The ascending load, then calls on the hot keys.
Load == \E g \in PayloadOutcomes :
          /\ loaded < LoadCount
          /\ CallInsert(LoadStep * (loaded + 1), 1, g)
          /\ loaded' = loaded + 1
          /\ UNCHANGED <<walk_vars, seg_vars, veb_vars>>

HotInsert == \E k \in HotKeys : \E g \in PayloadOutcomes :
               loaded = LoadCount /\ CallInsert(k, 1, g) /\ UNCHANGED <<loaded, walk_vars, seg_vars, veb_vars>>

HotRemove == \E k \in HotKeys : \E g \in PayloadOutcomes :
               loaded = LoadCount /\ CallRemove(k, g) /\ UNCHANGED <<loaded, walk_vars, seg_vars, veb_vars>>

NextLoaded == Load \/ HotInsert \/ HotRemove

SpecLoaded == Init /\ [][NextLoaded]_vars

\* The PMA driven on its own, as its test_operations drives it: insert at any
\* index up to the capacity, remove at any index below it.
PmaInsert ==
  \E index \in 0..Len(pma.v) : \E k \in PmaKeys :
    LET Returned(r) ==
          /\ pma' = r.pma
          /\ changed_range' = r.range
          /\ panic' = r.panic
    IN /\ panic = "none"
       /\ get_count(pma.v) < MaxPmaCount
       /\ Returned(pma_insert(pma, index, <<k, 1>>))
       /\ op' = <<"pma_insert", index, k>>
       /\ UNCHANGED <<height, nodes, leaves, size, s, ret, sret, loaded, walk_vars, seg_vars, veb_vars>>

PmaRemove ==
  \E index \in 0..(Len(pma.v) - 1) :
    LET Returned(r) ==
          /\ pma' = r.pma
          /\ changed_range' = r.range
    IN /\ panic = "none"
       /\ Returned(pma_remove(pma, index))
       /\ op' = <<"pma_remove", index, 0>>
       /\ UNCHANGED <<height, nodes, leaves, size, s, ret, sret, loaded, panic, walk_vars, seg_vars, veb_vars>>

NextPma == PmaInsert \/ PmaRemove

SpecPma == Init /\ [][NextPma]_vars

\* The Segment primitives on their own, as the test_operations of segment.rs
\* calls them: a segment of 1..MaxSegLen slots, any slots occupied, and one
\* call on it.  The occupants carry their rank as key, the inserted element
\* the key 0.
Ranked(occupied) ==
  [i \in DOMAIN occupied |->
     IF occupied[i] THEN <<Cardinality({j \in 1..i : occupied[j]}), 1>> ELSE None]

InitSegment ==
  /\ Fresh
  /\ NoWalk
  /\ \E n \in 1..MaxSegLen : segment \in {Ranked(occupied) : occupied \in [1..n -> BOOLEAN]}
  /\ data = segment
  /\ NoVeb

Called(name, position) ==
  /\ op[1] = "new"
  /\ op' = <<name, position, 0>>
  /\ UNCHANGED <<height, nodes, leaves, pma, size, s, ret, sret, changed_range, loaded,
                 walk_vars, segment, veb_vars>>

\* Segment::new(&data, None).insert_key_value(position, key_value); the
\* panic of line 127 leaves the slots as they were.
SegInsert ==
  \E position \in 0..Len(segment) :
    /\ Called("insert_key_value", position)
    /\ data' = insert_key_value(segment, position, <<0, 1>>)
    /\ panic' = IF HasSpace(segment) THEN "none" ELSE "no_space"

SegRemove ==
  \E index \in 0..(Len(segment) - 1) :
    /\ Called("remove_key_value", index)
    /\ data' = remove_key_value(segment, index)
    /\ panic' = "none"

SegFront ==
  /\ Called("move_all_key_values_to_front", 0)
  /\ data' = move_all_key_values_to_front(segment, get_count(segment))
  /\ panic' = "none"

\* shuffle_key_values.  When j is decremented below zero the build decides:
\* with overflow checks the subtraction panics (every occupant has been
\* placed by then), without them j wraps and is not read again.
SegShuffle ==
  /\ Called("shuffle_key_values", 0)
  /\ data' = shuffle_key_values(segment, get_count(segment), TRUE)
  /\ panic' \in {"none"} \cup
       (IF get_count(segment) > 0
           /\ \E t \in DOMAIN ShuffleTargets(get_count(segment) - 1, Len(segment) - 1,
                                              Len(segment) \div get_count(segment),
                                              Len(segment) % get_count(segment)) :
                ShuffleTargets(get_count(segment) - 1, Len(segment) - 1,
                               Len(segment) \div get_count(segment),
                               Len(segment) % get_count(segment))[t] < 0
        THEN {"overflow"} ELSE {})

NextSegment == SegInsert \/ SegRemove \/ SegFront \/ SegShuffle

SpecSegment == InitSegment /\ [][NextSegment]_vars

\* test_create_tree for every height up to MaxHeight: make_tree, then traverse
\* from the root, one call of traverse per step.
InitTree ==
  /\ Fresh
  /\ tree_height \in 1..MaxHeight
  /\ tree = make_tree_from_empty(tree_height)
  /\ positions = [d \in 1..tree_height |-> <<>>]
  /\ todo = <<<<0, tree.root, NoRef>>>>
  /\ NoSegment
  /\ NoVeb

\* traverse(depth, cur, parent, ...): the position of cur is recorded under its
\* depth, then the left and the right child are traversed.
Traverse ==
  /\ todo # <<>>
  /\ LET depth == todo[1][1]
         cur == todo[1][2]
         node == tree.nodes[cur + 1]
     IN /\ positions' = [positions EXCEPT ![depth + 1] = Append(@, cur)]
        /\ todo' = (IF node.leaf THEN <<>>
                    ELSE <<<<depth + 1, node.left, cur>>, <<depth + 1, node.right, cur>>>>)
                   \o Tail(todo)
  /\ UNCHANGED <<height, nodes, leaves, pma, size, s, op, ret, sret, changed_range,
                 loaded, panic, tree_height, tree, seg_vars, veb_vars>>

NextTree == Traverse

SpecTree == InitTree /\ [][NextTree]_vars

\* test_works for every height up to MaxVebHeight, its loop running over all
\* the sorted indices 1 .. 2^height - 1: one call of veb_index per step.
InitVeb ==
  /\ Fresh
  /\ NoWalk
  /\ NoSegment
  /\ veb_height \in 1..MaxVebHeight
  /\ veb_i = 1
  /\ addresses = <<>>

VebStep ==
  /\ veb_i < Pow2(veb_height)
  /\ addresses' = Append(addresses, veb_index(veb_i, veb_height))
  /\ veb_i' = veb_i + 1
  /\ UNCHANGED <<height, nodes, leaves, pma, size, s, op, ret, sret, changed_range,
                 loaded, panic, walk_vars, seg_vars, veb_height>>

NextVeb == VebStep

SpecVeb == InitVeb /\ [][NextVeb]_vars


\* ------------------------------------------------------------ the claims
\* The pairs of the reference map in ascending key order.
RECURSIVE PairsUpTo(_, _)
PairsUpTo(m, k) ==
  IF k = 0 THEN <<>>
  ELSE IF m[k] = NoVal THEN PairsUpTo(m, k - 1)
  ELSE Append(PairsUpTo(m, k - 1), <<k, m[k]>>)

SortedPairs(m) == PairsUpTo(m, Max(Universe))

Occupied(p) == {i \in 1..Len(p.v) : p.v[i] # None}
IsLive(p, k) == \E i \in Occupied(p) : p.v[i][1] = k
ValueOf(p, k) == p.v[CHOOSE i \in Occupied(p) : p.v[i][1] = k][2]

\* C1: after every step the container agrees with the reference sorted map:
\* the call returned what the reference returned, len() is the reference's
\* size and get_all_key_values() is the reference's pairs in key order.
C1_AgreesWithReference ==
  panic = "none" =>
    /\ ret = sret
    /\ len(Self) = Cardinality({k \in Universe : s[k] # NoVal})
    /\ get_all_key_values(Self) = SortedPairs(s)

\* C2: get(k) is the value last inserted for k when k is live, None otherwise.
C2_GetReturnsLastInserted ==
  panic = "none" => \A k \in Universe : get(Self, k) = s[k]

\* C3: the keys of the occupied slots, left to right, strictly ascend.
C3_SlotsAscending ==
  \A i, j \in Occupied(pma) : i < j => pma.v[i][1] < pma.v[j][1]

\* C4: the size counter is the number of occupied slots.
C4_SizeIsOccupancy == len(Self) = Cardinality(Occupied(pma))

C4_Witness ==
  /\ op[1] = "remove" /\ ret # NoVal
  /\ size >= 2 /\ Cardinality(Occupied(pma)) = size


\* C5: round trip: after insert(k, v), get(k) is v; a remove(k) that follows
\* returns v, and get(k) is then None.
C5_RoundTrip ==
  [][ /\ (op'[1] = "insert" /\ panic' = "none") => get(Self', op'[2]) = op'[3]
      /\ (op[1] = "insert" /\ op'[1] = "remove" /\ op'[2] = op[2])
           => (ret' = op[3] /\ get(Self', op[2]) = NoVal) ]_vars

C5_Witness ==
  /\ op[1] = "remove" /\ ret = MaxVal
  /\ get(Self, op[2]) = NoVal
  /\ size >= 2

\* C6: insert(k, v2) of a live key returns the stored value, keeps len(),
\* keeps every other key's value and makes get(k) return v2; insert of a key
\* that is not live returns None and adds one to len().
C6_ReplaceSemantics ==
  [][ (op'[1] = "insert" /\ panic' = "none") =>
        IF IsLive(pma, op'[2])
        THEN /\ ret' = ValueOf(pma, op'[2])
             /\ size' = size
             /\ \A k \in Universe \ {op'[2]} :
                  IsLive(pma, k) => (IsLive(pma', k) /\ ValueOf(pma', k) = ValueOf(pma, k))
             /\ get(Self', op'[2]) = op'[3]
        ELSE ret' = NoVal /\ size' = size + 1 ]_vars

\* C7: remove(k) of a key that is not live returns None and leaves the
\* container (size, slots, PMA shape, tree) as it was; so does a second call.
C7_RemoveAbsentIsNoOp ==
  [][ (op'[1] = "remove" /\ ~IsLive(pma, op'[2])) =>
        /\ ret' = NoVal
        /\ UNCHANGED <<height, nodes, leaves, pma, size>>
        /\ \A g \in PayloadOutcomes :
             /\ remove(Self', op'[2], g).old_value = NoVal
             /\ remove(Self', op'[2], g).bt = Self' ]_vars

C7_Witness ==
  /\ op[1] = "remove" /\ ret = NoVal /\ ~IsLive(pma, op[2])
  /\ size >= 2

\* C8: get_top_k_key_values(k) is the first min(k, len()) entries of
\* get_all_key_values().
C8_TopKIsPrefix ==
  \A k \in 0..(MaxLen + 1) :
    get_top_k_key_values(Self, k) =
      SubSeq(get_all_key_values(Self), 1, IF k < len(Self) THEN k ELSE len(Self))

C8_Witness ==
  /\ size >= 3
  /\ Len(get_top_k_key_values(Self, 2)) = 2
  /\ Len(get_top_k_key_values(Self, size + 1)) = size

\* C9: capacity = segment_size * 2^(height-1), segment_size = 2^segment_size_log2
\* and height - 1 - segment_size_log2 is 0 or 1.
C9_Shape ==
  /\ Len(pma.v) = pma.segment_size * Pow2(pma.height - 1)
  /\ pma.segment_size = Pow2(pma.segment_size_log2)
  /\ pma.height - 1 - pma.segment_size_log2 \in {0, 1}

C9_Witness ==
  /\ op[1] = "remove" /\ ret # NoVal /\ changed_range = NoRange
  /\ Len(pma.v) = 8

\* The aligned windows of depth d: <<from, to>>.
WindowsAt(p, d) ==
  LET wsize == p.segment_size * Pow2(p.height - 1 - d)
  IN {<<i * wsize, (i + 1) * wsize>> : i \in 0..((Len(p.v) \div wsize) - 1)}

\* C10 as stated: after every insert or remove every aligned window at every
\* depth d lies within (2H - d)/(4H) and (3H + d)/(4H).
C10_AllWindowsWithinBounds ==
  op[1] # "new" =>
    \A d \in 0..(pma.height - 1) : \A w \in WindowsAt(pma, d) :
      LET c == get_count(Slice(pma.v, w[1], w[2]))
      IN /\ c * (4 * pma.height) <= (w[2] - w[1]) * (3 * pma.height + d)
         /\ c * (4 * pma.height) >= (w[2] - w[1]) * (2 * pma.height - d)

\* C10 amended: the window a non-resizing call reports lies within the bound
\* that call tests at the window's depth: the ceiling after an insert that
\* added a key, the floor after a remove that took one out.
DepthOf(p, w) == p.height - 1 - Log2((w[2] - w[1]) \div p.segment_size)

C10_ReportedWindowWithinBound ==
  (changed_range # NoRange /\ panic = "none") =>
    LET c == get_count(Slice(pma.v, changed_range[1], changed_range[2]))
        wsize == changed_range[2] - changed_range[1]
        d == DepthOf(pma, changed_range)
    IN /\ (op[1] = "insert" /\ ret = NoVal)
            => c * (4 * pma.height) <= wsize * (3 * pma.height + d)
       /\ (op[1] = "remove" /\ ret # NoVal)
            => c * (4 * pma.height) >= wsize * (2 * pma.height - d)

C10_Witness ==
  /\ op[1] = "insert" /\ ret = NoVal /\ changed_range # NoRange
  /\ changed_range[2] - changed_range[1] > pma.segment_size
  /\ Len(pma.v) >= 8


\* The slot indices below the branch or leaf n: depth Log2(n), so the subtree
\* spans 2^(height - 1 - depth) leaves.
SlotsBelow(bt, n) ==
  LET span == Pow2(bt.height - 1 - Log2(n))
  IN {i \in 0..(NumLeaves(bt) - 1) :
        i >= n * span - NumLeaves(bt) /\ i < (n + 1) * span - NumLeaves(bt)}

\* The largest key in the PMA slots below n, NoKey if they are all empty.
MaxKeyBelow(bt, n) ==
  LET ks == {bt.pma.v[i + 1][1] : i \in {j \in SlotsBelow(bt, n) : bt.pma.v[j + 1] # None}}
  IN IF ks = {} THEN NoKey ELSE Max(ks)

\* C11: every branch of the index tree reads the largest key of the slots of
\* its subtree, and reads none exactly when the subtree is empty.
C11_BranchKeyIsSubtreeMax ==
  \A n \in DOMAIN nodes : get_key(Self, n) = MaxKeyBelow(Self, n)

\* C12: leaf i of the tree holds the key of PMA slot i, none when the slot is empty.
C12_LeafMirrorsSlot ==
  /\ Len(leaves) = Len(pma.v)
  /\ \A i \in 0..(Len(pma.v) - 1) :
       get_key(Self, NumLeaves(Self) + i) =
         (IF pma.v[i + 1] = None THEN NoKey ELSE pma.v[i + 1][1])

C12_Witness ==
  /\ op[1] = "remove" /\ ret # NoVal /\ changed_range # NoRange
  /\ Len(pma.v) >= 8
  /\ \E i \in 0..(Len(pma.v) - 1) : pma.v[i + 1] # None /\ leaves[i + 1].some


\* The array position of the node with breadth-first id n (root 1, children
\* 2n and 2n + 1), found by following left and right from the root.
RECURSIVE BfsPos(_, _)
BfsPos(t, n) ==
  IF n = 1 THEN t.root
  ELSE LET Child(parent) == IF n % 2 = 0 THEN t.nodes[parent + 1].left
                            ELSE t.nodes[parent + 1].right
       IN Child(BfsPos(t, n \div 2))

\* C13: the index tree is the complete binary tree of height
\* log2(capacity) + 1; it has as many leaves as the PMA has slots, and the
\* leaf of rank i is the one that stands for slot i.
C13_TreeShape ==
  /\ height = Log2(Len(pma.v)) + 1
  /\ Len(leaves) = Len(pma.v)
  /\ Len(nodes) = Len(leaves) - 1
  /\ LET t == make_tree_from_empty(height)
     IN /\ Len(t.leaves) = Len(pma.v)
        /\ Len(t.nodes) = 2 * Len(pma.v) - 1
        /\ \A i \in 0..(Len(pma.v) - 1) :
             /\ t.leaves[i + 1] = BfsPos(t, Len(pma.v) + i)
             /\ t.nodes[t.leaves[i + 1] + 1].leaf

C13_Witness ==
  /\ op[1] = "remove" /\ ret # NoVal /\ changed_range = NoRange
  /\ Len(pma.v) = 8 /\ height = 4 /\ Len(leaves) = 8

\* C14: make_tree(h) makes 2^h - 1 nodes and 2^(h-1) leaves, and the nodes of
\* the complete binary tree take the array positions 0 .. 2^h - 2, each once.
C14_NodesArePermutation ==
  /\ Len(tree.nodes) = Pow2(tree_height) - 1
  /\ Len(tree.leaves) = Pow2(tree_height - 1)
  /\ {BfsPos(tree, n) : n \in 1..(Pow2(tree_height) - 1)} = 0..(Pow2(tree_height) - 2)
  /\ Cardinality({BfsPos(tree, n) : n \in 1..(Pow2(tree_height) - 1)}) = Pow2(tree_height) - 1

C14_Witness ==
  /\ tree_height = 5 /\ todo = <<>>
  /\ Len(tree.nodes) = 31

\* The breadth-first ids of the subtree of height h rooted at the node of id r.
SubtreeIds(r, h) == UNION {(r * Pow2(d))..(r * Pow2(d) + Pow2(d) - 1) : d \in 0..(h - 1)}

\* Parent, left and right agree: the root has no parent, a branch is the
\* parent of both its children, a leaf has no child.
LinksConsistent(t) ==
  /\ t.nodes[t.root + 1].parent = NoRef
  /\ \A x \in 1..Len(t.nodes) :
       IF t.nodes[x].leaf
       THEN t.nodes[x].left = NoRef /\ t.nodes[x].right = NoRef
       ELSE /\ t.nodes[x].left \in 0..(Len(t.nodes) - 1)
            /\ t.nodes[x].right \in 0..(Len(t.nodes) - 1)
            /\ t.nodes[x].left # t.nodes[x].right
            /\ t.nodes[t.nodes[x].left + 1].parent = x - 1
            /\ t.nodes[t.nodes[x].right + 1].parent = x - 1

\* The top subtree takes the first positions, then each bottom subtree takes
\* the next block of positions, left to right.
TopThenBottoms(t, h) ==
  h >= 2 =>
    LET bottom_height == next_power_of_two((h + 1) \div 2)
        top_height == h - bottom_height
        block == Pow2(bottom_height) - 1
        first == Pow2(top_height) - 1
    IN /\ {BfsPos(t, n) : n \in SubtreeIds(1, top_height)} = 0..(first - 1)
       /\ \A j \in 0..(Pow2(top_height) - 1) :
            /\ BfsPos(t, Pow2(top_height) + j) = first + j * block
            /\ {BfsPos(t, n) : n \in SubtreeIds(Pow2(top_height) + j, bottom_height)}
                 = (first + j * block)..(first + (j + 1) * block - 1)

\* C15: make_tree writes the top subtree first and then the bottom subtrees
\* left to right, the bottom height being the next power of two of ceil(h/2);
\* the traversal by depth meets the positions of the two lists at heights 5
\* and 4; the links agree with the shape (also the parent traverse expects of
\* each pending node) and every key is none.
C15_LayoutByDepth ==
  /\ TopThenBottoms(tree, tree_height)
  /\ LinksConsistent(tree)
  /\ \A i \in 1..Len(todo) : tree.nodes[todo[i][2] + 1].parent = todo[i][3]
  /\ \A x \in 1..Len(tree.nodes) :
       tree.nodes[x].key = (IF tree.nodes[x].leaf THEN NoKey ELSE NoRef)
  /\ (tree_height = 5 /\ todo = <<>>) =>
       positions = << <<0>>, <<1, 16>>, <<2, 3, 17, 18>>,
                      <<4, 7, 10, 13, 19, 22, 25, 28>>,
                      <<5, 6, 8, 9, 11, 12, 14, 15, 20, 21, 23, 24, 26, 27, 29, 30>> >>
  /\ (tree_height = 4 /\ todo = <<>>) =>
       positions = << <<0>>, <<1, 2>>, <<3, 6, 9, 12>>,
                      <<4, 5, 7, 8, 10, 11, 13, 14>> >>

C15_Witness ==
  /\ tree_height = 5 /\ todo = <<>>
  /\ Len(positions[5]) = 16

\* The breadth-first ids of the nodes in array order.
ArrayOrderIds(t) ==
  [x \in 1..Len(t.nodes) |-> CHOOSE n \in 1..Len(t.nodes) : BfsPos(t, n) = x - 1]

\* The array positions, counted from 1, of the nodes in breadth-first order.
BfsOrderPositions(t) == [n \in 1..Len(t.nodes) |-> BfsPos(t, n) + 1]

Height5List ==
  <<1, 2, 17, 3, 4, 18, 19, 5, 8, 11, 14, 20, 23, 26, 29, 6, 7, 9, 10, 12, 13, 15, 16,
    21, 22, 24, 25, 27, 28, 30, 31>>

\* C16 as stated: at height 5 the nodes read in array order have the
\* breadth-first ids of Height5List.
C16_ArrayOrderGivesIds ==
  tree_height = 5 => ArrayOrderIds(tree) = Height5List

\* C16 amended: at height 5 the nodes read in breadth-first order sit at the
\* array positions (counted from 1) of Height5List.
C16_BfsOrderGivesPositions ==
  tree_height = 5 => BfsOrderPositions(tree) = Height5List

C16_Witness ==
  /\ tree_height = 5 /\ todo = <<>>
  /\ BfsPos(tree, 3) = 16

\* C17: the container is empty exactly when the PMA has its initial shape
\* (one empty slot, height 1, segment size 1), so the removal of the last
\* element has reset it; a PMA that holds an element has at least two slots.
C17_EmptyIsInitialShape ==
  /\ (size = 0) <=> (pma = pma_new)
  /\ (Occupied(pma) = {}) <=> (pma = pma_new)
  /\ size > 0 => Len(pma.v) >= 2

C17_Witness ==
  /\ op[1] = "remove" /\ ret # NoVal
  /\ size = 0 /\ pma = pma_new

\* find_index(key) splits the occupied slots: index is at most the capacity,
\* every occupied slot before it holds a smaller key, every occupied slot from
\* it on holds a key that is not smaller, and a live key is found at index.
SplitsAt(p, key, index) ==
  /\ index \in 0..Len(p.v)
  /\ \A j \in Occupied(p) : IF j - 1 < index THEN p.v[j][1] < key ELSE p.v[j][1] >= key
  /\ IsLive(p, key) => (index < Len(p.v) /\ p.v[index + 1] # None /\ p.v[index + 1][1] = key)

\* C18: for every key, find_index splits the occupied slots at the key.
C18_FindIndexSplits ==
  \A key \in Universe : SplitsAt(pma, key, find_index(Self, key))

C18_Witness ==
  /\ size >= 5
  /\ \E key \in Universe :
       /\ ~IsLive(pma, key)
       /\ find_index(Self, key) = Len(pma.v)

\* The node the descent of find_index stands on at depth d (the root at
\* depth 0, the leaf at depth height - 1), read off the leaf rank index it
\* ends at.
PathNode(bt, index, d) == Pow2(d) + (index \div Pow2(bt.height - 1 - d))

WentRight(bt, index, d) == PathNode(bt, index, d + 1) = 2 * PathNode(bt, index, d) + 1

\* C19 as stated: at every internal node on its way the descent goes right
\* exactly when the key stored at that node is none or smaller than the
\* search key.
C19_DescentByOwnKey ==
  \A key \in Universe :
    LET Along(index) ==
          \A d \in 0..(height - 2) :
            WentRight(Self, index, d) <=>
              (get_key(Self, PathNode(Self, index, d)) = NoKey
                 \/ get_key(Self, PathNode(Self, index, d)) < key)
    IN Along(Descend(Self, key, 1, 0))

\* C19 amended: at every internal node on its way the descent goes right
\* exactly when the key of the node's left child is none or smaller than the
\* search key.
C19_DescentByLeftKey ==
  \A key \in Universe :
    LET Along(index) ==
          \A d \in 0..(height - 2) :
            WentRight(Self, index, d) <=>
              (get_key(Self, 2 * PathNode(Self, index, d)) = NoKey
                 \/ get_key(Self, 2 * PathNode(Self, index, d)) < key)
    IN Along(Descend(Self, key, 1, 0))

C19_Witness ==
  \E key \in Keys :
    LET Along(index) ==
          \E d \in 0..(height - 2) :
            /\ WentRight(Self, index, d)
            /\ get_key(Self, PathNode(Self, index, d)) >= key
            /\ get_key(Self, 2 * PathNode(Self, index, d)) # NoKey
    IN Along(Descend(Self, key, 1, 0))

\* The pairs of the PMA in slot order.
RECURSIVE Elements(_)
Elements(v) ==
  IF v = <<>> THEN <<>>
  ELSE IF v[1] = None THEN Elements(Tail(v)) ELSE <<v[1]>> \o Elements(Tail(v))

\* The window of depth d that holds the leaf segment insert(index) starts from.
PathWindow(p, index, d) ==
  LET width == p.segment_size * Pow2(p.height - 1 - d)
      slot == IF index = Len(p.v) THEN index - 1 ELSE index
      from == (slot \div width) * width
  IN [from |-> from, to |-> from + width, size |-> width,
      count |-> get_count(Slice(p.v, from, from + width))]

\* No window from the leaf segment up to the root passes its ceiling once the
\* new element is counted in.
NoWindowPasses(p, index) ==
  \A d \in 0..(p.height - 1) :
    ~insert_density_ok(p.height, d, PathWindow(p, index, d).count + 1,
                       PathWindow(p, index, d).size)

\* The call reaches PackedMemoryArray::insert: the slot at index does not hold
\* the key already.
ReachesInsert(p, index, key) ==
  ~(index < Len(p.v) /\ p.v[index + 1] # None /\ p.v[index + 1][1] = key)

InsertedAt(elems, n, key_value) ==
  SubSeq(elems, 1, n) \o <<key_value>> \o SubSeq(elems, n + 1, Len(elems))

\* C20: PackedMemoryArray::insert resizes exactly when no window from the
\* target leaf segment up to the root passes its density ceiling with the new
\* element counted.  A resize doubles the capacity, keeps the old elements
\* and the new one in order and returns None; otherwise capacity, height and
\* segment size stay and the changed window (from, to) is returned.
C20_InsertResizesIffNoWindow ==
  [][(op'[1] = "insert" /\ panic' = "none"
        /\ ReachesInsert(pma, find_index(Self, op'[2]), op'[2])) =>
       LET index == find_index(Self, op'[2])
           before == Cardinality({j \in Occupied(pma) : j - 1 < index})
       IN /\ Elements(pma'.v) = InsertedAt(Elements(pma.v), before, <<op'[2], op'[3]>>)
          /\ IF NoWindowPasses(pma, index)
             THEN /\ Len(pma'.v) = 2 * Len(pma.v)
                  /\ changed_range' = NoRange
             ELSE /\ Len(pma'.v) = Len(pma.v)
                  /\ pma'.height = pma.height
                  /\ pma'.segment_size = pma.segment_size
                  /\ changed_range' # NoRange
                  /\ \E d \in 0..(pma.height - 1) :
                       changed_range' = <<PathWindow(pma, index, d).from,
                                          PathWindow(pma, index, d).to>>
  ]_vars

C20_Witness ==
  /\ op[1] = "insert" /\ ret = NoVal /\ panic = "none"
  /\ changed_range = NoRange
  /\ Len(pma.v) = 16 /\ size = 7

C20_WitnessInPlace ==
  /\ op[1] = "insert" /\ ret = NoVal /\ panic = "none"
  /\ changed_range # NoRange
  /\ Len(pma.v) = 8 /\ changed_range[2] - changed_range[1] < 8

\* The PMA with the slot at index cleared, as remove leaves it before it
\* looks at any density.
Cleared(p, index) == [p EXCEPT !.v = remove_key_value(p.v, index)]

\* Every window from the leaf segment of index up to the root fails its
\* density floor.
EveryWindowFails(p, index) ==
  \A d \in 0..(p.height - 1) :
    ~remove_density_ok(p.height, d, PathWindow(p, index, d).count,
                       PathWindow(p, index, d).size)

\* C21: PackedMemoryArray::remove resizes exactly when, the slot cleared,
\* every window from the leaf segment up to the root fails its density floor.
\* A resize that leaves elements halves the capacity, keeps them in order and
\* returns None; otherwise capacity, height and segment size stay and the
\* changed window (from, to) is returned.
C21_RemoveResizesIffEveryWindowFails ==
  [][op'[1] = "pma_remove" =>
       LET Settled(c) ==
             /\ Elements(pma'.v) = Elements(c.v)
             /\ IF EveryWindowFails(c, op'[2])
                THEN /\ changed_range' = NoRange
                     /\ IF Elements(c.v) = <<>>
                        THEN pma' = pma_new
                        ELSE Len(pma'.v) * 2 = Len(pma.v)
                ELSE /\ Len(pma'.v) = Len(pma.v)
                     /\ pma'.height = pma.height
                     /\ pma'.segment_size = pma.segment_size
                     /\ changed_range' # NoRange
                     /\ \E d \in 0..(pma.height - 1) :
                          changed_range' = <<PathWindow(c, op'[2], d).from,
                                             PathWindow(c, op'[2], d).to>>
       IN Settled(Cleared(pma, op'[2]))
  ]_vars

C21_Witness ==
  /\ op[1] = "pma_remove" /\ changed_range = NoRange
  /\ Len(pma.v) = 8 /\ get_count(pma.v) = 6

\* The pair the resize rules work on.
ShapeOf(p) == <<p.height, p.segment_size_log2, p.segment_size>>

\* C22: on every reachable shape the shrink rule undoes the grow rule, and
\* on every reachable shape with at least two slots (the only ones a resize
\* down is made from) the grow rule undoes the shrink rule.  Grow raises the
\* height when height - 1 = segment_size_log2 and the segment size otherwise;
\* shrink lowers the segment size when height - 1 = segment_size_log2 and the
\* height otherwise.
C22_ShrinkInvertsGrow ==
  /\ ShapeOf(ShrinkShape(GrowShape(pma, pma.v), pma.v)) = ShapeOf(pma)
  /\ Len(pma.v) >= 2 =>
       /\ ShapeOf(GrowShape(ShrinkShape(pma, pma.v), pma.v)) = ShapeOf(pma)
       /\ ShapeOf(ShrinkShape(pma, pma.v)) =
            (IF pma.height - 1 = pma.segment_size_log2
             THEN <<pma.height, pma.segment_size_log2 - 1, pma.segment_size \div 2>>
             ELSE <<pma.height - 1, pma.segment_size_log2, pma.segment_size>>)
  /\ ShapeOf(GrowShape(pma, pma.v)) =
       (IF pma.height - 1 = pma.segment_size_log2
        THEN <<pma.height + 1, pma.segment_size_log2, pma.segment_size>>
        ELSE <<pma.height, pma.segment_size_log2 + 1, pma.segment_size * 2>>)

C22_Witness ==
  /\ op[1] = "pma_remove" /\ changed_range = NoRange
  /\ ShapeOf(pma) = <<2, 1, 2>>

\* The depths whose path window passes: for insert the ceiling with the new
\* element counted, for remove the floor with the slot cleared.
PassingDepths(p, index, inserting) ==
  LET Passes(d, w) ==
        IF inserting
        THEN insert_density_ok(p.height, d, w.count + 1, w.size)
        ELSE remove_density_ok(p.height, d, w.count, w.size)
      Among(q) == {d \in 0..(p.height - 1) : Passes(d, PathWindow(q, index, d))}
  IN Among(IF inserting THEN p ELSE Cleared(p, index))

\* C23: the window a non-resizing insert or remove returns is the smallest
\* window on the path from the leaf segment to the root that passes: the
\* deepest passing depth, hence the leaf segment itself when it passes.
C23_SmallestPassingWindow ==
  [][(op'[1] \in {"pma_insert", "pma_remove"} /\ changed_range' # NoRange) =>
       LET Same(w) == changed_range' = <<w.from, w.to>>
           At(d) == Same(PathWindow(pma, op'[2], d))
           Deepest(passing) == passing # {} /\ At(Max(passing))
       IN Deepest(PassingDepths(pma, op'[2], op'[1] = "pma_insert"))
  ]_vars

C23_Witness ==
  /\ op[1] = "pma_insert" /\ changed_range # NoRange
  /\ pma.height = 3
  /\ changed_range[2] - changed_range[1] = pma.segment_size

C23_WitnessBetween ==
  /\ op[1] = "pma_insert" /\ changed_range # NoRange
  /\ changed_range[2] - changed_range[1] > pma.segment_size
  /\ changed_range[2] - changed_range[1] < Len(pma.v)

C23_WitnessRemove ==
  /\ op[1] = "pma_remove" /\ changed_range # NoRange
  /\ changed_range[2] - changed_range[1] > pma.segment_size

\* C24: PackedMemoryArray::remove on a slot that is already empty changes no
\* slot, nor the capacity, the height or the segment size, and reports the
\* leaf segment of the index.
C24_RemoveEmptySlotIsNoOp ==
  [][(op'[1] = "pma_remove" /\ pma.v[op'[2] + 1] = None) =>
       /\ pma' = pma
       /\ changed_range' = LeafWindow(pma, op'[2])
  ]_vars

\* The empty slots (0-based) of a segment at or after a position, and before it.
EmptyFrom(d, position) == {i \in position..(Len(d) - 1) : d[i + 1] = None}
EmptyBefore(d, position) == {i \in 0..(position - 1) : d[i + 1] = None}

\* The number of occupants at the 0-based positions below one.
OccupantsBefore(d, position) == Cardinality({i \in 0..(position - 1) : d[i + 1] # None})

\* C25: insert_key_value(pos) on a segment with an empty slot.  With an
\* empty slot at or after pos, the first such slot i is used: the occupants
\* of [pos, i) move right by one and the element is put at pos.  Otherwise
\* the nearest empty slot i before pos is used: the occupants of (i, pos)
\* move left by one and the element is put at pos - 1.  No other slot
\* changes, the count grows by one, and the occupants in slot order are the
\* old ones with the element after those formerly before pos and before
\* those formerly at or after pos.
C25_InsertShifts ==
  (op[1] = "insert_key_value" /\ HasSpace(segment)) =>
    LET pos == op[2]
        Right(i) ==
          /\ data[pos + 1] = <<0, 1>>
          /\ \A x \in 0..(Len(segment) - 1) :
               IF x >= pos /\ x < i THEN data[x + 2] = segment[x + 1]
               ELSE (x < pos \/ x > i) => data[x + 1] = segment[x + 1]
        Left(i) ==
          /\ data[pos] = <<0, 1>>
          /\ \A x \in 0..(Len(segment) - 1) :
               IF x > i /\ x < pos THEN data[x] = segment[x + 1]
               ELSE (x < i \/ x >= pos) => data[x + 1] = segment[x + 1]
    IN /\ panic = "none"
       /\ IF EmptyFrom(segment, pos) # {}
          THEN Right(Min(EmptyFrom(segment, pos)))
          ELSE Left(Max(EmptyBefore(segment, pos)))
       /\ get_count(data) = get_count(segment) + 1
       /\ Elements(data) = InsertedAt(Elements(segment), OccupantsBefore(segment, pos), <<0, 1>>)

C25_Witness ==
  /\ op[1] = "insert_key_value" /\ panic = "none"
  /\ op[2] < Len(segment) /\ segment[op[2] + 1] # None
  /\ EmptyFrom(segment, op[2]) # {} /\ EmptyBefore(segment, op[2]) # {}
  /\ data[op[2] + 1] = <<0, 1>>

C25_WitnessLeft ==
  /\ op[1] = "insert_key_value" /\ panic = "none"
  /\ EmptyFrom(segment, op[2]) = {}
  /\ Max(EmptyBefore(segment, op[2])) < op[2] - 2
  /\ data[op[2]] = <<0, 1>>

\* C26: insert_key_value on a segment without an empty slot panics, and no
\* occupant has been moved or overwritten by then.
C26_InsertWithoutRoomPanics ==
  (op[1] = "insert_key_value" /\ EmptyFrom(segment, 0) = {}) =>
    /\ panic = "no_space"
    /\ data = segment

C26_Witness ==
  /\ op[1] = "insert_key_value" /\ panic = "no_space"
  /\ Len(segment) = 4 /\ op[2] = 2

\* The slots of d that hold an element, in ascending order.
OccupiedSlots(d) ==
  LET occ == {i \in 0..(Len(d) - 1) : d[i + 1] # None}
  IN [k \in 1..Cardinality(occ) |->
        CHOOSE i \in occ : Cardinality({x \in occ : x < i}) = k - 1]

\* C27: move_all_key_values_to_front is a stable left-compaction: the occupants
\* fill the first count slots in their original order, every other slot is
\* empty, and the count is unchanged.
C27_FrontIsStableCompaction ==
  op[1] = "move_all_key_values_to_front" =>
    LET count == get_count(segment)
    IN /\ Len(data) = Len(segment)
       /\ \A i \in 0..(Len(data) - 1) :
            data[i + 1] = IF i < count THEN Elements(segment)[i + 1] ELSE None
       /\ get_count(data) = count

C27_Witness ==
  /\ op[1] = "move_all_key_values_to_front"
  /\ get_count(segment) = 3 /\ Len(segment) = 6
  /\ OccupiedSlots(segment) = <<1, 3, 5>>
  /\ OccupiedSlots(data) = <<0, 1, 2>>

\* C28: shuffle_key_values on a segment with count >= 1 keeps the occupants and
\* their order, puts the last occupant in slot len - 1, and leaves consecutive
\* occupants floor(len/count) or floor(len/count) + 1 slots apart; with
\* count = 0 it changes nothing.
C28_ShuffleSpreadsEvenly ==
  op[1] = "shuffle_key_values" =>
    LET count == get_count(segment)
        n == Len(segment)
        at == OccupiedSlots(data)
    IN /\ Len(data) = n
       /\ IF count = 0 THEN data = segment
          ELSE /\ Elements(data) = Elements(segment)
               /\ data[n] # None
               /\ \A k \in 1..(count - 1) :
                    at[k + 1] - at[k] \in {n \div count, (n \div count) + 1}

C28_Witness ==
  /\ op[1] = "shuffle_key_values"
  /\ Len(segment) = 5 /\ OccupiedSlots(segment) = <<0, 1, 2>>
  /\ OccupiedSlots(data) = <<1, 3, 4>>

C28_WitnessEmpty ==
  /\ op[1] = "shuffle_key_values"
  /\ Len(segment) = 5 /\ get_count(segment) = 0

\* The slot shuffle_key_values leaves occupant i (0-based) in: len - 1 for the
\* last one, and below it one step of sub_len per occupant, one slot more for
\* each occupant numbered below the remainder.
ShuffleSlot(n, count, i) ==
  LET sub_len == n \div count
      remainer == n % count
      below == IF remainer - 1 - i > 0 THEN remainer - 1 - i ELSE 0
  IN (n - 1) - (count - 1 - i) * sub_len - below

\* C29: after shuffle_key_values on a segment of len slots with count >= 1
\* occupants, occupant i (0-based) sits in slot floor(i * len / count).
C29_OccupantAtFloor ==
  (op[1] = "shuffle_key_values" /\ get_count(segment) >= 1) =>
    LET count == get_count(segment)
    IN \A i \in 0..(count - 1) :
         OccupiedSlots(data)[i + 1] = (i * Len(segment)) \div count

\* C29 (amended): occupant i sits in slot
\* len - 1 - (count - 1 - i) * floor(len/count) - max(0, len mod count - 1 - i).
C29_OccupantAtShuffleSlot ==
  (op[1] = "shuffle_key_values" /\ get_count(segment) >= 1) =>
    LET count == get_count(segment)
    IN \A i \in 0..(count - 1) :
         /\ OccupiedSlots(data)[i + 1] = ShuffleSlot(Len(segment), count, i)
         /\ data[ShuffleSlot(Len(segment), count, i) + 1] = Elements(segment)[i + 1]

C29_Witness ==
  /\ op[1] = "shuffle_key_values"
  /\ Len(segment) = 6 /\ get_count(segment) = 4
  /\ OccupiedSlots(data) = <<1, 3, 4, 5>>

\* C30: in shuffle_key_values with len >= count >= 1 the target index j never
\* goes below zero, the decrement after placing occupant 0 included.
C30_TargetNeverBelowZero ==
  (op[1] = "shuffle_key_values" /\ get_count(segment) >= 1) =>
    LET count == get_count(segment)
        n == Len(segment)
        js == ShuffleTargets(count - 1, n - 1, n \div count, n % count)
    IN \A t \in DOMAIN js : js[t] >= 0

\* Where j does go below zero: only in the decrement after placing occupant 0,
\* and exactly when count divides len.
C30_BelowZeroIffDivides ==
  (op[1] = "shuffle_key_values" /\ get_count(segment) >= 1) =>
    LET count == get_count(segment)
        n == Len(segment)
        js == ShuffleTargets(count - 1, n - 1, n \div count, n % count)
    IN /\ \A t \in 1..(count - 1) : js[t] >= 0
       /\ js[count] < 0 <=> n % count = 0
       /\ js[count] >= -1

\* The leaves of [from, to) after the first loop of populate_changes.
SetLeaves(bt, from, to, g) ==
  [bt EXCEPT !.leaves =
     [i \in 1..Len(bt.leaves) |->
        IF i - 1 >= from /\ i - 1 < to
        THEN set_leave_key(bt.leaves[i],
               IF get_key_values(bt.pma)[i] = None THEN NoKey
               ELSE get_key_values(bt.pma)[i][1], g)
        ELSE bt.leaves[i]]]

\* The work list of the populate_changes that insert and remove run on bt1
\* (the container holding the PMA as the call left it): seeds is changed_nodes
\* after the first loop, list is changed_nodes at the end; on a resize the
\* call is the one rebuild makes on the new tree.
RefreshNodes(bt1, range, g) ==
  LET Run(bt2, from, to) ==
        [height |-> bt2.height,
         seeds |-> PushParents(bt2, from, to, <<>>),
         list |-> ChangedNodes(SetLeaves(bt2, from, to, g),
                               PushParents(bt2, from, to, <<>>), 1)]
      Rebuilt(new_height) ==
        Run([bt1 EXCEPT !.height = new_height,
                        !.leaves = make_tree(new_height).leaves,
                        !.nodes = make_tree(new_height).nodes],
            0, data_len(bt1.pma))
  IN IF range # NoRange THEN Run(bt1, range[1], range[2])
     ELSE Rebuilt(Log2(data_len(bt1.pma)) + 1)

\* The work lists of every insert and remove that can be called now.
RefreshesNow ==
  LET OfInsert(r, g) ==
        IF r.panic # "none" THEN {}
        ELSE {RefreshNodes([Self EXCEPT !.pma = r.pma], r.range, g)}
      OfRemove(r, g) ==
        IF r.old_value = NoVal THEN {}
        ELSE {RefreshNodes([Self EXCEPT !.pma = r.pma], r.range, g)}
      RemoveAt(index, key, g) ==
        IF index >= Len(leaves) THEN {}
        ELSE IF ~LeafHoldsKey(Self, index, key) THEN {}
        ELSE OfRemove(remove_slot(pma, index), g)
      Calls(key, g, index) ==
        (IF size < MaxLen
         THEN OfInsert(insert_or_replace(pma, index, <<key, 1>>), g) ELSE {})
          \cup RemoveAt(index, key, g)
  IN UNION {Calls(key, g, find_index(Self, key)) : key \in Universe, g \in PayloadOutcomes}

\* C31: the propagation of populate_changes ends, no node is in its work list
\* twice, and every node the second loop appends is the parent of a node
\* already in the list.
C31_PropagationTowardRoot ==
  panic = "none" =>
    \A w \in RefreshesNow :
      /\ Len(w.list) <= Pow2(w.height - 1) - 1
      /\ \A a, b \in DOMAIN w.list : a # b => w.list[a] # w.list[b]
      /\ SubSeq(w.list, 1, Len(w.seeds)) = w.seeds
      /\ \A a \in (Len(w.seeds) + 1)..Len(w.list) :
           \E b \in 1..(a - 1) : w.list[a] = w.list[b] \div 2

\* A call whose range is one segment of several and whose work list goes on
\* from the segment's leaf parents up to the root.
C31_Witness ==
  /\ panic = "none"
  /\ \E w \in RefreshesNow :
       /\ w.height >= 4
       /\ Len(w.seeds) < Pow2(w.height - 2)
       /\ Len(w.list) > Len(w.seeds)
       /\ w.list[Len(w.list)] = 1

\* C32: a range returned by a non-resizing PackedMemoryArray::insert or remove
\* is a density window: its width is segment_size * 2^j for a j in
\* 0..height - 1, it starts at a multiple of its width, lies within the array,
\* and holds the target slot (the last slot for an insert at the capacity).
C32_RangeIsWindow ==
  (op[1] \in {"pma_insert", "pma_remove"} /\ panic = "none" /\ changed_range # NoRange) =>
    LET lo == changed_range[1]
        hi == changed_range[2]
        target == IF op[1] = "pma_insert" /\ op[2] = Len(pma.v) THEN op[2] - 1 ELSE op[2]
    IN /\ \E j \in 0..(pma.height - 1) : hi - lo = pma.segment_size * Pow2(j)
       /\ 0 <= lo /\ lo < hi /\ hi <= Len(pma.v)
       /\ lo % (hi - lo) = 0
       /\ lo <= target /\ target < hi

\* An insert at the capacity that settles in a window between the leaf segment
\* and the whole array.
C32_Witness ==
  /\ op[1] = "pma_insert" /\ panic = "none" /\ changed_range # NoRange
  /\ op[2] = Len(pma.v)
  /\ pma.height >= 3
  /\ changed_range[2] - changed_range[1] = 2 * pma.segment_size

C32_WitnessRemove ==
  /\ op[1] = "pma_remove" /\ changed_range # NoRange
  /\ pma.height >= 3
  /\ changed_range[2] - changed_range[1] = 2 * pma.segment_size
  /\ changed_range[1] > 0

\* Leaf i of the tree of bt reads the key of slot i, none for an empty slot.
LeafReads(lvs, v, i) ==
  IF v[i + 1] = None THEN ~lvs[i + 1].some
  ELSE lvs[i + 1].some /\ lvs[i + 1].key = v[i + 1][1]

\* C33: an insert or remove of the container whose PMA call reported a range
\* left every slot outside the range as it was, and the refresh of the leaves
\* of the range alone leaves every leaf reading its slot.
C33_OnlyRangeChanges ==
  [][(op'[1] \in {"insert", "remove"} /\ panic' = "none" /\ changed_range' # NoRange) =>
       /\ Len(pma'.v) = Len(pma.v)
       /\ \A i \in 0..(Len(pma.v) - 1) :
            (i < changed_range'[1] \/ i >= changed_range'[2]) =>
              /\ pma'.v[i + 1] = pma.v[i + 1]
              /\ leaves'[i + 1] = leaves[i + 1]
       /\ \A i \in 0..(Len(pma.v) - 1) : LeafReads(leaves', pma'.v, i)]_vars

\* A call that moved elements inside a range that is a proper part of the
\* array, with elements outside it.
C33_Witness ==
  /\ op[1] = "insert" /\ ret = NoVal /\ panic = "none" /\ changed_range # NoRange
  /\ changed_range[2] - changed_range[1] < Len(pma.v)
  /\ changed_range[2] - changed_range[1] >= 2
  /\ \E i \in 0..(Len(pma.v) - 1) :
       (i < changed_range[1] \/ i >= changed_range[2]) /\ pma.v[i + 1] # None

\* C34: the window a non-resizing PackedMemoryArray::insert returns holds,
\* after the call, at most size * (3H + d) / (4H) elements and so at least one
\* empty slot; the window a non-resizing remove returns holds at least
\* size * (2H - d) / (4H) elements.
C34_ReturnedWindowInBand ==
  (op[1] \in {"pma_insert", "pma_remove"} /\ panic = "none" /\ changed_range # NoRange) =>
    LET width == changed_range[2] - changed_range[1]
        occupancy == get_count(Slice(pma.v, changed_range[1], changed_range[2]))
        d == DepthOf(pma, changed_range)
    IN IF op[1] = "pma_insert"
       THEN /\ occupancy * (4 * pma.height) <= width * (3 * pma.height + d)
            /\ occupancy < width
       ELSE occupancy * (4 * pma.height) >= width * (2 * pma.height - d)

\* An insert whose window is left exactly at its ceiling.
C34_Witness ==
  /\ op[1] = "pma_insert" /\ panic = "none" /\ changed_range # NoRange
  /\ pma.height >= 3
  /\ changed_range[2] - changed_range[1] = 2 * pma.segment_size
  /\ (get_count(Slice(pma.v, changed_range[1], changed_range[2])) + 1) * (4 * pma.height)
       > (changed_range[2] - changed_range[1]) * (3 * pma.height + 1)

\* A remove whose window could not lose one more element.
C34_WitnessRemove ==
  /\ op[1] = "pma_remove" /\ changed_range # NoRange
  /\ pma.height >= 3
  /\ changed_range[2] - changed_range[1] = 2 * pma.segment_size
  /\ (get_count(Slice(pma.v, changed_range[1], changed_range[2])) - 1) * (4 * pma.height)
       < (changed_range[2] - changed_range[1]) * (2 * pma.height - 1)

\* The slots insert_key_value is handed by PackedMemoryArray::insert once it
\* has settled on window w: the window, or the doubled array on a resize.
InsertSlots(p, w) ==
  IF w.density_ok THEN Slice(p.v, w.from, w.to)
  ELSE p.v \o [x \in 1..(w.size * 2 - Len(p.v)) |-> None]

\* C35: in every state the container reaches the array has an empty slot, so
\* for every key an insert may be called with, the assertion found_segment of
\* PackedMemoryArray::insert holds and insert_key_value is handed slots with
\* room ("No space to insert" cannot happen).
C35_InsertFindsRoom ==
  /\ panic = "none"
  /\ get_count(pma.v) < Len(pma.v)
  /\ \A key \in Universe :
       LET Room(w) == w.found_segment /\ HasSpace(InsertSlots(pma, w))
           At(index) == /\ index <= Len(pma.v)
                        /\ Room(InsertWindow(pma, index))
       IN At(find_index(Self, key))

\* The array as full as it gets: the whole array is at its ceiling, and the
\* next insert of a new key must resize.
C35_Witness ==
  /\ op[1] = "insert" /\ ret = NoVal /\ panic = "none"
  /\ Len(pma.v) = 8
  /\ get_count(pma.v) * 4 = Len(pma.v) * 3
  /\ \E key \in Keys : ~InsertWindow(pma, find_index(Self, key)).density_ok

\* C36: when PackedMemoryArray::remove resizes down, the elements left after
\* clearing the slot number less than half the capacity, so they fit the
\* halved array and all of them are still there, in order, after the call.
C36_ShrinkLosesNothing ==
  [][(op'[1] = "pma_remove" /\ changed_range' = NoRange) =>
       LET Halved(c) ==
             /\ get_count(c.v) * 2 < Len(pma.v)
             /\ get_count(c.v) > 0 => /\ Len(pma'.v) * 2 = Len(pma.v)
                                      /\ get_count(c.v) <= Len(pma'.v)
             /\ Elements(pma'.v) = Elements(c.v)
       IN Halved(Cleared(pma, op'[2]))
  ]_vars

\* A resize down from 16 slots that leaves 7 elements, one short of half.
C36_Witness ==
  /\ op[1] = "pma_remove" /\ changed_range = NoRange
  /\ Len(pma.v) = 8 /\ get_count(pma.v) = 7

\* The loop of find_index on the node array t that make_tree filled: cur is a
\* position in t.nodes, id the breadth-first id of the node there (the keys
\* are read from bt by it), index the leaf rank built so far.
RECURSIVE PointerDescend(_, _, _, _, _, _)
PointerDescend(bt, t, key, cur, id, index) ==
  IF t.nodes[cur + 1].leaf THEN [cur |-> cur, index |-> index]
  ELSE LET k == get_key(bt, 2 * id)
       IN IF k # NoKey /\ k >= key
          THEN PointerDescend(bt, t, key, t.nodes[cur + 1].left, 2 * id, 2 * index)
          ELSE PointerDescend(bt, t, key, t.nodes[cur + 1].right, 2 * id + 1, 2 * index + 1)

\* C37: for every search key the leaf the descent of find_index ends at is
\* leaves[index] for the index built bit by bit on the way (the assertion
\* cur == self.leaves[index] holds), and that index is below the capacity.
C37_DescentEndsAtLeafOfIndex ==
  LET Ends(t) ==
        \A key \in Universe :
          LET At(r) == /\ r.index < Len(pma.v)
                       /\ r.index < Len(t.leaves)
                       /\ r.cur = t.leaves[r.index + 1]
                       /\ r.index = Descend(Self, key, 1, 0)
          IN At(PointerDescend(Self, t, key, t.root, 1, 0))
  IN Ends(make_tree_from_empty(height))

\* A tree of height 4 in which some key is routed to a leaf that is neither
\* the first nor the last.
C37_Witness ==
  /\ op[1] = "insert" /\ panic = "none"
  /\ height = 4
  /\ \E key \in Keys : Descend(Self, key, 1, 0) \in {2, 5}
  /\ \E key \in Keys : Descend(Self, key, 1, 0) = 7

\* C38: veb_index(n, h) maps the sorted indices 1 .. 2^h - 1 one-to-one onto
\* the addresses 1 .. 2^h - 1: no address is given twice, none lies outside,
\* and once the loop is through every one of them has been given.
C38_VebIndexIsBijection ==
  /\ Len(addresses) = veb_i - 1
  /\ \A a \in DOMAIN addresses : addresses[a] \in 1..(Pow2(veb_height) - 1)
  /\ \A a, b \in DOMAIN addresses : a # b => addresses[a] # addresses[b]
  /\ veb_i = Pow2(veb_height) =>
       {addresses[a] : a \in DOMAIN addresses} = 1..(Pow2(veb_height) - 1)

\* The loop of test_works through for height 4: the middle index is the root
\* at address 1, the indices 4 and 12 are its children at 2 and 3.
C38_Witness ==
  /\ veb_height = 4 /\ veb_i = 16
  /\ addresses[8] = 1 /\ addresses[4] = 2 /\ addresses[12] = 3

====
